---- MODULE Spec2Model ----
(***************************************************************************)
(* ATS Resume Analyzer: the Streamlit page (app.py, main) and the analysis *)
(* helpers (ats_analyser.py).                                              *)
(*                                                                         *)
(* Text is modelled as a sequence of one-character strings.  A model reply *)
(* is a sequence of lexical tokens: "{", "}", "x" (any text that is not    *)
(* JSON) and "M" (a non-empty, well-formed list of "key": value members,   *)
(* whose content is the mapping carried next to the token sequence).       *)
(* A Python dict is a function from field names to values.                 *)
(***************************************************************************)
EXTENDS Integers, Sequences, FiniteSets, TLC

VARIABLES
    \* ---- st.session_state (app.py init_session_state) ----
    processing,          \* busy flag
    analysis_results,    \* None or the stored result
    show_detailed_view,  \* detail toggle
    \* ---- the script run of main() ----
    pc,                  \* position of the script run
    api_key,             \* whether GOOGLE_API_KEY is set
    jd,                  \* text_area value seen by the run
    uploaded_file,       \* file_uploader value seen by the run
    resume_text,         \* local of the pipeline
    input_prompt,        \* local of the pipeline
    response,            \* local of the pipeline
    view,                \* which section the last run rendered
    message,             \* st.warning / st.error shown by the last run
    analyze_disabled,    \* disabled= of the Analyze button as rendered
    attempt,             \* how the last click on Analyze ended
    stages,              \* pipeline stages completed since that click
    card,                \* display_score_card outcome of the last run
    \* ---- the score functions applied to one mapping ----
    sc_pc,               \* which score functions have been applied
    sc_data,             \* the mapping they are applied to
    val_out,             \* outcome of process_ats_results
    card_out,            \* outcome of display_score_card
    report_out,          \* outcome of the score table of generate_pdf_report
    reval_out,           \* outcome of validating the JSON text of the result
    \* ---- generate_action_plan applied to one argument ----
    plan_pc,             \* whether the plan has been derived
    plan_arg,            \* the argument: a dict or a str
    plan_out,            \* outcome of generate_action_plan
    plan_shown           \* what the Quick Action Plan section shows

appVars == <<processing, analysis_results, show_detailed_view, pc, api_key,
             jd, uploaded_file, resume_text, input_prompt, response, view,
             message, analyze_disabled, attempt, stages, card>>
scVars == <<sc_pc, sc_data, val_out, card_out, report_out, reval_out>>
planVars == <<plan_pc, plan_arg, plan_out, plan_shown>>
vars == <<processing, analysis_results, show_detailed_view, pc, api_key,
          jd, uploaded_file, resume_text, input_prompt, response, view,
          message, analyze_disabled, attempt, stages, card,
          sc_pc, sc_data, val_out, card_out, report_out, reval_out,
          plan_pc, plan_arg, plan_out, plan_shown>>

----------------------------------------------------------------------------
(* Bounds *)

MaxScoreLen == 3    \* longest score string tried
MaxTextLen == 1     \* longest job description / page text tried
MaxPages == 2       \* most pages in an uploaded PDF
MaxReplyLen == 4    \* longest model reply, in tokens

----------------------------------------------------------------------------
(* Python strings *)

Digits == <<"0", "1", "2", "3", "4", "5", "6", "7", "8", "9">>

DigitChars == {Digits[i] : i \in 1..10}

\* str.isdigit on one character
IsDigit(c) == c \in DigitChars

DigitVal(c) == (CHOOSE i \in 1..10 : Digits[i] = c) - 1

\* whitespace as str.split() and str.strip() see it
IsSpace(c) == c = " "

RECURSIVE LStrip(_)
LStrip(s) ==
    IF s = <<>> THEN <<>>
    ELSE IF IsSpace(Head(s)) THEN LStrip(Tail(s)) ELSE s

RECURSIVE RStrip(_)
RStrip(s) ==
    IF s = <<>> THEN <<>>
    ELSE IF IsSpace(s[Len(s)]) THEN RStrip(SubSeq(s, 1, Len(s) - 1)) ELSE s

\* str.strip()
Strip(s) == RStrip(LStrip(s))

\* the run of non-whitespace characters s starts with
RECURSIVE TakeToken(_)
TakeToken(s) ==
    IF s = <<>> THEN <<>>
    ELSE IF IsSpace(Head(s)) THEN <<>>
    ELSE <<Head(s)>> \o TakeToken(Tail(s))

\* str.split(): the whitespace-delimited tokens, none of them empty
RECURSIVE Split(_)
Split(s) ==
    LET t == LStrip(s) IN
    IF t = <<>> THEN <<>>
    ELSE LET tok == TakeToken(t) IN
         <<tok>> \o Split(SubSeq(t, Len(tok) + 1, Len(t)))

\* ''.join(filter(str.isdigit, tok))
FilterDigits(tok) == SelectSeq(tok, IsDigit)

\* int() of a non-empty string of decimal digits
RECURSIVE IntOf(_)
IntOf(ds) ==
    IF ds = <<>> THEN 0
    ELSE IntOf(SubSeq(ds, 1, Len(ds) - 1)) * 10 + DigitVal(ds[Len(ds)])

\* outcome of an expression that yields an integer or raises
IntOk(n) == [ok |-> TRUE, val |-> n, err |-> "none"]
IntRaise(e) == [ok |-> FALSE, val |-> 0, err |-> e]

\* int(''.join(filter(str.isdigit, str(score).split()[0])))
ScoreDigits(score_text) ==
    LET toks == Split(score_text) IN
    IF toks = <<>> THEN IntRaise("IndexError")
    ELSE LET ds == FilterDigits(toks[1]) IN
         IF ds = <<>> THEN IntRaise("ValueError")
         ELSE IntOk(IntOf(ds))

\* the "N/A" default of results.get(..., "N/A")
NA == <<"N", "/", "A">>

----------------------------------------------------------------------------
(* Python dicts *)

EmptyDict == [f \in {} |-> <<>>]

\* dict.get(key, default)
Get(data, key, default) == IF key \in DOMAIN data THEN data[key] ELSE default

required_fields == <<"JD Match", "MissingKeywords", "Profile Summary",
                    "SkillsAlignment", "ExperienceMatch", "Recommendations",
                    "ATSScore">>

ScoreFields == <<"JD Match", "ATSScore">>

----------------------------------------------------------------------------
(* JSON text *)

\* a text: its tokens and the mapping its "M" tokens stand for
Text(toks, members) ==
    [text |-> toks,
     members |-> IF \E i \in 1..Len(toks) : toks[i] = "M" THEN members
                 ELSE EmptyDict]

NoText == Text(<<>>, EmptyDict)

DataOk(d) == [ok |-> TRUE, val |-> d, err |-> "none"]
DataRaise(e) == [ok |-> FALSE, val |-> EmptyDict, err |-> e]

TextOk(t) == [ok |-> TRUE, val |-> t, err |-> "none"]
TextRaise(e) == [ok |-> FALSE, val |-> NoText, err |-> e]

\* json.loads: an object is "{" "}" or "{" members "}"
json_loads(t) ==
    IF t.text = <<"{", "}">> THEN DataOk(EmptyDict)
    ELSE IF t.text = <<"{", "M", "}">> THEN DataOk(t.members)
    ELSE DataRaise("JSONDecodeError")

\* json.dumps of a dict: "{}" or "{" members "}"
json_dumps(d) ==
    IF DOMAIN d = {} THEN Text(<<"{", "}">>, EmptyDict)
    ELSE Text(<<"{", "M", "}">>, d)

\* re.search(r'\{.*\}', text, re.DOTALL): leftmost "{", longest match
ReSearchBraces(t) ==
    LET opens == {i \in 1..Len(t.text) : t.text[i] = "{"}
        closes == {j \in 1..Len(t.text) : t.text[j] = "}"}
    IN  IF opens = {} THEN TextRaise("NoMatch")
        ELSE LET first == CHOOSE i \in opens : \A k \in opens : i <= k
                 after == {j \in closes : j > first}
             IN  IF after = {} THEN TextRaise("NoMatch")
                 ELSE LET last == CHOOSE j \in after : \A k \in after : k <= j
                      IN  TextOk(Text(SubSeq(t.text, first, last), t.members))

----------------------------------------------------------------------------
(* ats_analyser.py *)

\* the first required field the reply lacks, "none" when it has them all
RECURSIVE MissingRequired(_, _)
MissingRequired(response_json, i) ==
    IF i > Len(required_fields) THEN "none"
    ELSE IF required_fields[i] \notin DOMAIN response_json THEN required_fields[i]
    ELSE MissingRequired(response_json, i + 1)

\* get_gemini_response, given the text the service replied with
get_gemini_response(prompt, reply) ==
    IF reply.text = <<>> THEN TextRaise("Empty response received from Gemini")
    ELSE LET parsed == json_loads(reply) IN
         IF parsed.ok
         THEN IF MissingRequired(parsed.val, 1) # "none"
              THEN TextRaise("Missing required field")
              ELSE TextOk(reply)
         ELSE LET match == ReSearchBraces(reply) IN
              IF match.ok THEN TextOk(match.val)
              ELSE TextRaise("Could not extract valid JSON response")

\* extract_pdf_text: a PDF is the sequence of its pages' texts
extract_pdf_text(uploaded) ==
    IF Len(uploaded) = 0 THEN [ok |-> FALSE, val |-> <<>>, err |-> "PDF file is empty"]
    ELSE LET text == SelectSeq(uploaded, LAMBDA page_text : page_text # <<>>)
             Join[i \in 0..Len(text)] ==
                 IF i = 0 THEN <<>>
                 ELSE IF i = 1 THEN text[1]
                 ELSE Join[i - 1] \o <<" ">> \o text[i]
         IN  IF text = <<>>
             THEN [ok |-> FALSE, val |-> <<>>, err |-> "No text could be extracted from the PDF"]
             ELSE [ok |-> TRUE, val |-> Join[Len(text)], err |-> "none"]

NoPrompt == [resume_text |-> <<>>, job_description |-> <<>>]

\* prepare_prompt: the template with its two substitutions
prepare_prompt(resume, job_description) ==
    IF resume = <<>> \/ job_description = <<>>
    THEN [ok |-> FALSE, val |-> NoPrompt,
          err |-> "Resume text and job description cannot be empty"]
    ELSE [ok |-> TRUE,
          val |-> [resume_text |-> Strip(resume),
                   job_description |-> Strip(job_description)],
          err |-> "none"]

\* the argument of process_ats_results: a str or a dict
Str(t) == [isstr |-> TRUE, text |-> t, map |-> EmptyDict]
Obj(m) == [isstr |-> FALSE, text |-> NoText, map |-> m]

\* ScoreCheck with the range check reduced to its lower bound
ScoreCheckNoUpperBound(data, score_field) ==
    IF score_field \in DOMAIN data
    THEN LET score_value == ScoreDigits(data[score_field]) IN
         IF ~score_value.ok THEN score_value.err
         ELSE IF ~(0 <= score_value.val)
              THEN "ValueError: must be between 0-100"
              ELSE "none"
    ELSE "none"

\* one pass of the loop of process_ats_results: "none" or the exception
ScoreCheck(data, score_field) ==
    IF score_field \in DOMAIN data
    THEN LET score_value == ScoreDigits(data[score_field]) IN
         IF ~score_value.ok THEN score_value.err
         ELSE IF ~(0 <= score_value.val /\ score_value.val <= 100)
              THEN "ValueError: must be between 0-100"
              ELSE "none"
    ELSE "none"

RECURSIVE ScoreLoop(_, _)
ScoreLoop(data, i) ==
    IF i > Len(ScoreFields) THEN "none"
    ELSE LET e == ScoreCheck(data, ScoreFields[i]) IN
         IF e # "none" THEN e ELSE ScoreLoop(data, i + 1)

\* process_ats_results returning each score reduced to its digits
process_ats_results_normalising(response_json) ==
    LET loaded == IF response_json.isstr THEN json_loads(response_json.text)
                  ELSE DataOk(response_json.map)
    IN  IF ~loaded.ok THEN DataRaise(loaded.err)
        ELSE LET e == ScoreLoop(loaded.val, 1) IN
             IF e # "none" THEN DataRaise(e)
             ELSE DataOk([f \in DOMAIN loaded.val |->
                            FilterDigits(Split(loaded.val[f])[1])])

\* process_ats_results
process_ats_results(response_json) ==
    LET loaded == IF response_json.isstr THEN json_loads(response_json.text)
                  ELSE DataOk(response_json.map)
    IN  IF ~loaded.ok THEN DataRaise(loaded.err)
        ELSE LET e == ScoreLoop(loaded.val, 1) IN
             IF e # "none" THEN DataRaise(e) ELSE DataOk(loaded.val)

----------------------------------------------------------------------------
(* app.py: score card and report score table *)

\* match_num without the "N/A" test of line 38
CardMatchNumNoSentinel(match_score) ==
    ScoreDigits(match_score)

\* display_score_card, match_num
CardMatchNum(match_score) ==
    IF match_score # NA THEN ScoreDigits(match_score) ELSE IntOk(0)

\* display_score_card, match_color
match_color(match_num) ==
    IF match_num >= 70 THEN "green"
    ELSE IF match_num >= 50 THEN "orange" ELSE "red"

\* display_score_card, ats_num
CardAtsNum(ats_score) ==
    IF ats_score # NA THEN ScoreDigits(ats_score) ELSE IntOk(0)

\* display_score_card, ats_color
ats_color(ats_num) ==
    IF ats_num >= 80 THEN "green"
    ELSE IF ats_num >= 60 THEN "orange" ELSE "red"

NotRun == [ran |-> FALSE, ok |-> FALSE, err |-> "none",
           match_num |-> 0, match_label |-> "none",
           ats_num |-> 0, ats_label |-> "none"]

Rendered(mn, ml, an, al) ==
    [ran |-> TRUE, ok |-> TRUE, err |-> "none",
     match_num |-> mn, match_label |-> ml, ats_num |-> an, ats_label |-> al]

RenderRaise(e) ==
    [ran |-> TRUE, ok |-> FALSE, err |-> e,
     match_num |-> 0, match_label |-> "none",
     ats_num |-> 0, ats_label |-> "none"]

\* display_score_card
display_score_card(match_score, ats_score) ==
    LET match_num == CardMatchNum(match_score) IN
    IF ~match_num.ok THEN RenderRaise(match_num.err)
    ELSE LET ats_num == CardAtsNum(ats_score) IN
         IF ~ats_num.ok THEN RenderRaise(ats_num.err)
         ELSE Rendered(match_num.val, match_color(match_num.val),
                       ats_num.val, ats_color(ats_num.val))

\* generate_pdf_report, match_num
ReportMatchNum(match_score) ==
    IF match_score # NA THEN ScoreDigits(match_score) ELSE IntOk(0)

\* generate_pdf_report, ats_num
ReportAtsNum(ats_score) ==
    IF ats_score # NA THEN ScoreDigits(ats_score) ELSE IntOk(0)

\* generate_pdf_report, status of the Job Description Match row
ReportMatchStatus(match_num) ==
    IF match_num >= 70 THEN "Excellent"
    ELSE IF match_num >= 50 THEN "Good" ELSE "Needs Improvement"

\* ReportAtsStatus with the cut points of the job-match row
ReportAtsStatusMatchCuts(ats_num) ==
    IF ats_num >= 70 THEN "Excellent"
    ELSE IF ats_num >= 50 THEN "Good" ELSE "Needs Improvement"

\* generate_pdf_report, status of the ATS Optimization Score row
ReportAtsStatus(ats_num) ==
    IF ats_num >= 80 THEN "Excellent"
    ELSE IF ats_num >= 60 THEN "Good" ELSE "Needs Improvement"

\* generate_pdf_report, the score summary table
ReportScoreTable(results) ==
    LET match_score == Get(results, "JD Match", NA)
        ats_score == Get(results, "ATSScore", NA)
        match_num == ReportMatchNum(match_score)
    IN  IF ~match_num.ok THEN RenderRaise(match_num.err)
        ELSE LET ats_num == ReportAtsNum(ats_score) IN
             IF ~ats_num.ok THEN RenderRaise(ats_num.err)
             ELSE Rendered(match_num.val, ReportMatchStatus(match_num.val),
                           ats_num.val, ReportAtsStatus(ats_num.val))

----------------------------------------------------------------------------
(* Inputs *)

SeqsUpTo(S, n) == UNION {[1..k -> S] : k \in 0..n}

ScoreChars == DigitChars \cup {"%", " ", "N", "/", "A"}

\* the score the other field carries while one field ranges over ScoreStrings
FewScores == {<<"8", "2">>}

Opt(S) == {[has |-> TRUE, v |-> s] : s \in S} \cup {[has |-> FALSE, v |-> <<>>]}

\* the dict holding the score fields that are present
ScoreDict(m, a) ==
    [f \in (IF m.has THEN {"JD Match"} ELSE {}) \cup
           (IF a.has THEN {"ATSScore"} ELSE {})
       |-> IF f = "JD Match" THEN m.v ELSE a.v]

NoOutcome == [ran |-> FALSE, ok |-> FALSE, val |-> EmptyDict, err |-> "none"]

----------------------------------------------------------------------------
(* The page: st.session_state after init_session_state, first run pending *)

None == [isNone |-> TRUE]

Dict(d) == [isNone |-> FALSE, val |-> d]

\* Python truth value of session_state.analysis_results
Truthy(results) == ~results.isNone /\ DOMAIN results.val # {}

AppStart(k, p) ==
    /\ processing = FALSE
    /\ analysis_results = None
    /\ show_detailed_view = FALSE
    /\ pc = p
    /\ api_key = k
    /\ jd = <<>>
    /\ uploaded_file = [has |-> FALSE, v |-> <<>>]
    /\ resume_text = <<>>
    /\ input_prompt = NoPrompt
    /\ response = NoText
    /\ view = "none"
    /\ message = "none"
    /\ analyze_disabled = FALSE
    /\ attempt = "none"
    /\ stages = <<>>
    /\ card = NotRun

ScoreOff ==
    /\ sc_pc = "off"
    /\ sc_data = EmptyDict
    /\ val_out = NoOutcome
    /\ card_out = NotRun
    /\ report_out = NotRun
    /\ reval_out = NoOutcome

PlanOff ==
    /\ plan_pc = "off"
    /\ plan_arg = Obj(EmptyDict)
    /\ plan_out = NoOutcome
    /\ plan_shown = "none"

----------------------------------------------------------------------------
(* The score functions applied to one mapping, in the order the program    *)
(* applies them to a result: validator, score card, report.                *)

InitScore ==
    /\ AppStart(TRUE, "off")
    /\ sc_pc = "input"
    /\ \E k \in 0..MaxScoreLen, present \in BOOLEAN, other \in Opt(FewScores) :
         \E s \in [1..k -> ScoreChars] :
            LET score == [has |-> present, v |-> IF present THEN s ELSE <<>>]
            IN  \/ sc_data = ScoreDict(score, other)
                \/ sc_data = ScoreDict(other, score)
    /\ val_out = NoOutcome
    /\ card_out = NotRun
    /\ report_out = NotRun
    /\ reval_out = NoOutcome
    /\ PlanOff

\* process_ats_results(sc_data)
ValidateScores ==
    /\ sc_pc = "input"
    /\ val_out' = [ran |-> TRUE] @@ process_ats_results(Obj(sc_data))
    /\ sc_pc' = "validated"
    /\ UNCHANGED <<sc_data, card_out, report_out, reval_out>>
    /\ UNCHANGED <<appVars, planVars>>

\* display_score_card(results.get("JD Match", "N/A"), results.get("ATSScore", "N/A"))
RenderScoreCard ==
    /\ sc_pc = "validated"
    /\ card_out' = display_score_card(Get(sc_data, "JD Match", NA),
                                    Get(sc_data, "ATSScore", NA))
    /\ sc_pc' = "carded"
    /\ UNCHANGED <<sc_data, val_out, report_out, reval_out>>
    /\ UNCHANGED <<appVars, planVars>>

\* the score summary table of generate_pdf_report(sc_data, ...)
RenderReportTable ==
    /\ sc_pc = "carded"
    /\ report_out' = ReportScoreTable(sc_data)
    /\ sc_pc' = "reported"
    /\ UNCHANGED <<sc_data, val_out, card_out, reval_out>>
    /\ UNCHANGED <<appVars, planVars>>

\* process_ats_results(json.dumps(result)) on the result the validator returned
Revalidate ==
    /\ sc_pc = "reported"
    /\ val_out.ok
    /\ reval_out' = [ran |-> TRUE] @@ process_ats_results(Str(json_dumps(val_out.val)))
    /\ sc_pc' = "revalidated"
    /\ UNCHANGED <<sc_data, val_out, card_out, report_out>>
    /\ UNCHANGED <<appVars, planVars>>

NextScore == ValidateScores \/ RenderScoreCard \/ RenderReportTable \/ Revalidate

SpecScore == InitScore /\ [][NextScore]_vars

----------------------------------------------------------------------------
(* Inputs of the page *)

TextChars == {" ", "a"}

\* what the user may have typed into the job description box
JobDescriptions == SeqsUpTo(TextChars, MaxTextLen)

\* what extract_text() may return for a page: nothing, blank, a word
PageTexts == {<<>>, <<" ">>, <<"a">>}

\* the PDFs the user may upload, as the texts of their pages
Pdfs == SeqsUpTo(PageTexts, MaxPages)

RequiredSet == {required_fields[i] : i \in 1..Len(required_fields)}

\* score values a reply may carry: in range, out of range, with a suffix, no digit
AppScores == {<<"8", "2">>, <<"1", "5", "0">>, <<"4", "5", "%">>, NA}

\* member lists of a reply: the required fields, all of them or all but one
MemberLists ==
    UNION {{[f \in D |-> IF f = "JD Match" THEN m
                         ELSE IF f = "ATSScore" THEN a ELSE "v"]
              : m \in AppScores, a \in AppScores}
           : D \in {RequiredSet} \cup {RequiredSet \ {f} : f \in RequiredSet}}

ReplyTokens == {"{", "}", "x", "M"}

\* the member lists that can go with the tokens of a reply
MembersFor(toks) ==
    IF \E i \in 1..Len(toks) : toks[i] = "M" THEN MemberLists ELSE {EmptyDict}

PipelineStages == {"extract", "prompt", "model", "validate"}

----------------------------------------------------------------------------
(* main(): one script run per user interaction; the analysis pipeline is   *)
(* split at its stages.  Locals are reset once no later line reads them.   *)

Init ==
    /\ \E k \in BOOLEAN : AppStart(k, "run")
    /\ ScoreOff
    /\ PlanOff

\* Finally without the reset of the flag
FinallyKeepsFlag == UNCHANGED processing

\* finally: st.session_state.processing = False
Finally == processing' = FALSE

\* SetBusy without the assignment
SetBusyForgotten == UNCHANGED processing

\* st.session_state.processing = True
SetBusy == processing' = TRUE

\* AnalysisFailed when the parsed reply was stored before it was validated
AnalysisFailedKeepsParsed ==
    /\ message' = "error"
    /\ Finally
    /\ attempt' = "failed"
    /\ pc' = "idle"
    /\ jd' = <<>>
    /\ uploaded_file' = [has |-> FALSE, v |-> <<>>]
    /\ resume_text' = <<>>
    /\ input_prompt' = NoPrompt
    /\ response' = NoText
    /\ analysis_results' =
          IF pc = "validate" /\ json_loads(response).ok
          THEN Dict(json_loads(response).val) ELSE analysis_results
    /\ UNCHANGED <<show_detailed_view, api_key, view,
                   analyze_disabled, stages, card>>

\* except Exception: st.error, st.info; finally; nothing stored, so the
\* results section is skipped and the run ends
AnalysisFailed ==
    /\ message' = "error"
    /\ Finally
    /\ attempt' = "failed"
    /\ pc' = "idle"
    /\ jd' = <<>>
    /\ uploaded_file' = [has |-> FALSE, v |-> <<>>]
    /\ resume_text' = <<>>
    /\ input_prompt' = NoPrompt
    /\ response' = NoText
    /\ UNCHANGED <<analysis_results, show_detailed_view, api_key, view,
                   analyze_disabled, stages, card>>

\* a script run with no button pressed: the first load, or after st.rerun()
RenderRun ==
    /\ pc = "run"
    /\ pc' = "idle"
    /\ IF ~api_key
       THEN /\ message' = "config_error"
            /\ view' = "none"
            /\ UNCHANGED <<analyze_disabled, card>>
       ELSE IF ~Truthy(analysis_results)
       THEN /\ message' = "none"
            /\ view' = "inputs"
            /\ analyze_disabled' = processing
            /\ card' = NotRun
       ELSE LET results == analysis_results.val
                shown == display_score_card(Get(results, "JD Match", NA),
                                          Get(results, "ATSScore", NA))
            IN  /\ message' = "none"
                /\ card' = shown
                /\ view' = IF shown.ok THEN "results" ELSE "exception"
                /\ UNCHANGED analyze_disabled
    /\ UNCHANGED <<processing, analysis_results, show_detailed_view, api_key,
                   jd, uploaded_file, resume_text, input_prompt, response,
                   attempt, stages>>
    /\ UNCHANGED <<scVars, planVars>>

\* Analyze without the job description check of lines 549-551
ClickAnalyzeNoJdCheck(j, f) ==
    /\ pc = "idle"
    /\ view = "inputs"
    /\ ~analyze_disabled
    /\ analyze_disabled' = processing
    /\ stages' = <<>>
    /\ IF ~f.has
       THEN /\ message' = "warning_file"
            /\ attempt' = "rejected"
            /\ UNCHANGED <<processing, pc, jd, uploaded_file>>
       ELSE /\ SetBusy
            /\ message' = "none"
            /\ attempt' = "running"
            /\ pc' = "extract"
            /\ jd' = j
            /\ uploaded_file' = f
    /\ UNCHANGED <<analysis_results, show_detailed_view, api_key, resume_text,
                   input_prompt, response, view, card>>
    /\ UNCHANGED <<scVars, planVars>>

\* the user presses Analyze with j in the text area and f in the uploader
ClickAnalyze(j, f) ==
    /\ pc = "idle"
    /\ view = "inputs"
    /\ ~analyze_disabled
    /\ analyze_disabled' = processing
    /\ stages' = <<>>
    /\ IF Strip(j) = <<>>
       THEN /\ message' = "warning_jd"
            /\ attempt' = "rejected"
            /\ UNCHANGED <<processing, pc, jd, uploaded_file>>
       ELSE IF ~f.has
       THEN /\ message' = "warning_file"
            /\ attempt' = "rejected"
            /\ UNCHANGED <<processing, pc, jd, uploaded_file>>
       ELSE /\ SetBusy
            /\ message' = "none"
            /\ attempt' = "running"
            /\ pc' = "extract"
            /\ jd' = j
            /\ uploaded_file' = f
    /\ UNCHANGED <<analysis_results, show_detailed_view, api_key, resume_text,
                   input_prompt, response, view, card>>
    /\ UNCHANGED <<scVars, planVars>>

\* resume_text = extract_pdf_text(uploaded_file)
Extract ==
    /\ pc = "extract"
    /\ LET r == extract_pdf_text(uploaded_file.v) IN
       IF r.ok
       THEN /\ resume_text' = r.val
            /\ uploaded_file' = [has |-> FALSE, v |-> <<>>]
            /\ stages' = Append(stages, "extract")
            /\ pc' = "prompt"
            /\ UNCHANGED <<processing, analysis_results, show_detailed_view,
                           api_key, jd, input_prompt, response, view, message,
                           analyze_disabled, attempt, card>>
       ELSE AnalysisFailed
    /\ UNCHANGED <<scVars, planVars>>

\* input_prompt = prepare_prompt(resume_text, jd)
Prompt ==
    /\ pc = "prompt"
    /\ LET r == prepare_prompt(resume_text, jd) IN
       IF r.ok
       THEN /\ input_prompt' = r.val
            /\ resume_text' = <<>>
            /\ jd' = <<>>
            /\ stages' = Append(stages, "prompt")
            /\ pc' = "model"
            /\ UNCHANGED <<processing, analysis_results, show_detailed_view,
                           api_key, uploaded_file, response, view, message,
                           analyze_disabled, attempt, card>>
       ELSE AnalysisFailed
    /\ UNCHANGED <<scVars, planVars>>

\* response = get_gemini_response(input_prompt)
ModelCall ==
    /\ pc = "model"
    /\ \E n \in 0..MaxReplyLen : \E toks \in [1..n -> ReplyTokens] :
       \E members \in MembersFor(toks) :
         LET reply == Text(toks, members)
             r == get_gemini_response(input_prompt, reply)
         IN
         IF r.ok
         THEN /\ response' = r.val
              /\ input_prompt' = NoPrompt
              /\ stages' = Append(stages, "model")
              /\ pc' = "validate"
              /\ UNCHANGED <<processing, analysis_results, show_detailed_view,
                             api_key, jd, uploaded_file, resume_text, view,
                             message, analyze_disabled, attempt, card>>
         ELSE AnalysisFailed
    /\ UNCHANGED <<scVars, planVars>>

\* response_json = process_ats_results(response); store it; st.rerun()
Validate ==
    /\ pc = "validate"
    /\ LET r == process_ats_results(Str(response)) IN
       IF r.ok
       THEN /\ analysis_results' = Dict(r.val)
            /\ Finally
            /\ response' = NoText
            /\ stages' = Append(stages, "validate")
            /\ attempt' = "stored"
            /\ pc' = "run"
            /\ UNCHANGED <<show_detailed_view, api_key, jd, uploaded_file,
                           resume_text, input_prompt, view, message,
                           analyze_disabled, card>>
       ELSE AnalysisFailed
    /\ UNCHANGED <<scVars, planVars>>

\* the user presses New Analysis in the sidebar
ClickNewAnalysis ==
    /\ pc = "idle"
    /\ api_key
    /\ Truthy(analysis_results)
    /\ analysis_results' = None
    /\ show_detailed_view' = FALSE
    /\ attempt' = "none"
    /\ stages' = <<>>
    /\ pc' = "run"
    /\ UNCHANGED <<processing, api_key, jd, uploaded_file, resume_text,
                   input_prompt, response, view, message, analyze_disabled,
                   card>>
    /\ UNCHANGED <<scVars, planVars>>

\* the user ticks Show Detailed Analysis
CheckDetailed ==
    /\ pc = "idle"
    /\ view = "results"
    /\ show_detailed_view' = TRUE
    /\ UNCHANGED <<processing, analysis_results, pc, api_key, jd,
                   uploaded_file, resume_text, input_prompt, response, view,
                   message, analyze_disabled, attempt, stages, card>>
    /\ UNCHANGED <<scVars, planVars>>

Next ==
    \/ RenderRun
    \/ \E j \in JobDescriptions, f \in Opt(Pdfs) : ClickAnalyze(j, f)
    \/ Extract
    \/ Prompt
    \/ ModelCall
    \/ Validate
    \/ ClickNewAnalysis
    \/ CheckDetailed

Spec == Init /\ [][Next]_vars

----------------------------------------------------------------------------
(* Properties of the page, checked under Spec *)

\* C1: once a click on Analyze has been handled (inputs rejected, a stage
\* raised, or the result was stored and the rerun triggered) the busy flag
\* is False, and the Analyze button is rendered enabled again.
BusyFlagCleared ==
    /\ pc \in {"idle", "run"} => processing = FALSE
    /\ (pc = "idle" /\ view = "inputs") => ~analyze_disabled

\* a failed analysis (the model call raised) has been handled
BusyFlagClearedAfterFailure ==
    /\ pc = "idle"
    /\ attempt = "failed"
    /\ stages = <<"extract", "prompt">>
    /\ processing = FALSE

NoPartialResults ==
    [][/\ (analysis_results' # analysis_results /\ ~analysis_results'.isNone)
            => /\ pc = "validate"
               /\ stages' = <<"extract", "prompt", "model", "validate">>
               /\ process_ats_results(Str(response)).ok
               /\ analysis_results' = Dict(process_ats_results(Str(response)).val)
               /\ message' # "error"
       /\ (attempt = "running" /\ attempt' = "failed")
            => /\ analysis_results' = analysis_results
               /\ message' = "error"]_vars

\* validation raised on a reply the model client had returned: nothing stored
ValidationFailedNothingStored ==
    /\ pc = "idle"
    /\ attempt = "failed"
    /\ stages = <<"extract", "prompt", "model">>
    /\ analysis_results.isNone
    /\ message = "error"

\* C4: when an attempt that entered the pipeline has ended, exactly one of
\* the results view and the error message is on the page.
EveryAttemptEndsVisibly ==
    (pc = "idle" /\ attempt \in {"stored", "failed"})
        => \/ (view = "results" /\ message # "error")
           \/ (view # "results" /\ message = "error")

\* C5: a stored result has all seven required top-level fields.
StoredResultHasRequiredFields ==
    ~analysis_results.isNone => RequiredSet \subseteq DOMAIN analysis_results.val

----------------------------------------------------------------------------
(* Properties of the score functions, checked under SpecScore *)

ScoreFieldSet == {ScoreFields[i] : i \in 1..Len(ScoreFields)}

\* the digits a token starts with
RECURSIVE LeadingDigits(_)
LeadingDigits(tok) ==
    IF tok = <<>> THEN <<>>
    ELSE IF IsDigit(Head(tok)) THEN <<Head(tok)>> \o LeadingDigits(Tail(tok))
    ELSE <<>>

\* the first whitespace-delimited token of s has no digit
FirstTokenHasNoDigit(s) ==
    Split(s) # <<>> /\ \A i \in 1..Len(Split(s)[1]) : ~IsDigit(Split(s)[1][i])

\* the first token of s is a non-empty digit run followed by a non-digit
DigitRunThenOther(s) ==
    /\ Split(s) # <<>>
    /\ LeadingDigits(Split(s)[1]) # <<>>
    /\ Len(LeadingDigits(Split(s)[1])) < Len(Split(s)[1])

NumOf(out, f) == IF f = "JD Match" THEN out.match_num ELSE out.ats_num

\* C6: process_ats_results succeeds only if every score field the mapping
\* carries has a first token with a digit in it, and the integer read from
\* that token (all its digits, and so also its leading digit run) lies in
\* [0,100]; out-of-range values and values without a digit make it fail.
ValidatorChecksScoreRange ==
    (val_out.ran /\ val_out.ok) =>
        \A f \in DOMAIN sc_data :
            /\ Split(sc_data[f]) # <<>>
            /\ ~FirstTokenHasNoDigit(sc_data[f])
            /\ IntOf(FilterDigits(Split(sc_data[f])[1])) \in 0..100
            /\ IntOf(LeadingDigits(Split(sc_data[f])[1])) \in 0..100

\* ATSScore = "150" next to a valid JD Match has been rejected
OutOfRangeScoreRejected ==
    /\ val_out.ran
    /\ DOMAIN sc_data = ScoreFieldSet
    /\ sc_data["ATSScore"] = <<"1", "5", "0">>
    /\ sc_data["JD Match"] = <<"8", "2">>
    /\ ~val_out.ok

\* C7: the validator fails on a mapping that lacks a score field.
ValidatorRejectsMissingScoreField ==
    (val_out.ran /\ ScoreFieldSet \ DOMAIN sc_data # {}) => ~val_out.ok

\* C8: for a score whose first token is a digit run d followed by a
\* non-digit, the score card and the report show int(d).
LeadingDigitRunExtracted ==
    sc_pc = "reported" =>
        \A f \in DOMAIN sc_data :
            DigitRunThenOther(sc_data[f]) =>
                /\ card_out.ok
                /\ NumOf(card_out, f) = IntOf(LeadingDigits(Split(sc_data[f])[1]))
                /\ report_out.ok
                /\ NumOf(report_out, f) = IntOf(LeadingDigits(Split(sc_data[f])[1]))

\* C9: a score equal to "N/A", or whose first token has no digit, is shown
\* as 0 by the score card and the report, without an exception (the other
\* score being "N/A" or a string that has a first token).
NoDigitScoreShownAsZero ==
    sc_pc = "reported" =>
        \A f \in ScoreFieldSet :
            LET s == Get(sc_data, f, NA)
                o == Get(sc_data, CHOOSE g \in ScoreFieldSet : g # f, NA)
            IN
            ((s = NA \/ FirstTokenHasNoDigit(s)) /\ (o = NA \/ Split(o) # <<>>)) =>
                /\ card_out.ok /\ NumOf(card_out, f) = 0
                /\ report_out.ok /\ NumOf(report_out, f) = 0

\* the report status that goes with a score-card colour
StatusOfColor(color) ==
    IF color = "green" THEN "Excellent"
    ELSE IF color = "orange" THEN "Good" ELSE "Needs Improvement"

\* C10: for a score n in 0..100 the job-match score is green / Excellent
\* iff n >= 70, orange / Good iff 50 <= n < 70, red / Needs Improvement iff
\* n < 50; the ATS score likewise with 80 and 60; card and report agree.
ClassificationCutPoints ==
    /\ (card_out.ran /\ card_out.ok /\ card_out.match_num \in 0..100) =>
          /\ card_out.match_label = "green" <=> card_out.match_num >= 70
          /\ card_out.match_label = "orange" <=>
                (50 <= card_out.match_num /\ card_out.match_num < 70)
          /\ card_out.match_label = "red" <=> card_out.match_num < 50
    /\ (card_out.ran /\ card_out.ok /\ card_out.ats_num \in 0..100) =>
          /\ card_out.ats_label = "green" <=> card_out.ats_num >= 80
          /\ card_out.ats_label = "orange" <=>
                (60 <= card_out.ats_num /\ card_out.ats_num < 80)
          /\ card_out.ats_label = "red" <=> card_out.ats_num < 60
    /\ (report_out.ran /\ report_out.ok /\ report_out.match_num \in 0..100) =>
          /\ report_out.match_label = "Excellent" <=> report_out.match_num >= 70
          /\ report_out.match_label = "Good" <=>
                (50 <= report_out.match_num /\ report_out.match_num < 70)
          /\ report_out.match_label = "Needs Improvement" <=>
                report_out.match_num < 50
    /\ (report_out.ran /\ report_out.ok /\ report_out.ats_num \in 0..100) =>
          /\ report_out.ats_label = "Excellent" <=> report_out.ats_num >= 80
          /\ report_out.ats_label = "Good" <=>
                (60 <= report_out.ats_num /\ report_out.ats_num < 80)
          /\ report_out.ats_label = "Needs Improvement" <=>
                report_out.ats_num < 60
    /\ (card_out.ok /\ report_out.ok) =>
          /\ report_out.match_num = card_out.match_num
          /\ report_out.ats_num = card_out.ats_num
          /\ report_out.match_label = StatusOfColor(card_out.match_label)
          /\ report_out.ats_label = StatusOfColor(card_out.ats_label)

\* JD Match "45%" is red / Needs Improvement, ATSScore "82" green / Excellent
WeakMatchStrongAts ==
    /\ sc_pc = "reported"
    /\ DOMAIN sc_data = ScoreFieldSet
    /\ sc_data["JD Match"] = <<"4", "5", "%">>
    /\ sc_data["ATSScore"] = <<"8", "2">>
    /\ card_out.match_num = 45 /\ card_out.match_label = "red"
    /\ report_out.match_label = "Needs Improvement"
    /\ card_out.ats_num = 82 /\ card_out.ats_label = "green"
    /\ report_out.ats_label = "Excellent"

----------------------------------------------------------------------------
(* JSON values of the fields the action plan reads *)

MaxListLen == 2     \* longest MissingKeywords / HighPriority list tried

JNull == [t |-> "null"]
JStr(str) == [t |-> "str", s |-> str]
JList(xs) == [t |-> "list", items |-> xs]
JDict(d) == [t |-> "dict", fields |-> d]

\* generate_action_plan with keyword_integration read from HighPriority
generate_action_plan_same_key(ats_results) ==
    LET loaded == IF ats_results.isstr THEN json_loads(ats_results.text)
                  ELSE DataOk(ats_results.map)
    IN  IF ~loaded.ok THEN DataRaise(loaded.err)
        ELSE LET data == loaded.val
                 recs == Get(data, "Recommendations", JDict(EmptyDict))
                 skills == Get(data, "SkillsAlignment", JDict(EmptyDict))
             IN  IF recs.t # "dict" THEN DataRaise("AttributeError")
                 ELSE IF skills.t # "dict" THEN DataRaise("AttributeError")
                 ELSE DataOk(
                   [immediate_actions |-> Get(recs.fields, "HighPriority", JList(<<>>)),
                    keyword_integration |-> Get(recs.fields, "HighPriority", JList(<<>>)),
                    missing_keywords |-> Get(data, "MissingKeywords", JList(<<>>)),
                    skill_gaps |-> Get(skills.fields, "GapAnalysis", JStr("")),
                    red_flags_to_fix |-> Get(data, "RedFlags", JList(<<>>)),
                    competitive_edge |-> Get(data, "CompetitiveAdvantage", JStr(""))])

\* generate_action_plan: .get on a value that is not a dict raises
generate_action_plan(ats_results) ==
    LET loaded == IF ats_results.isstr THEN json_loads(ats_results.text)
                  ELSE DataOk(ats_results.map)
    IN  IF ~loaded.ok THEN DataRaise(loaded.err)
        ELSE LET data == loaded.val
                 recs == Get(data, "Recommendations", JDict(EmptyDict))
                 skills == Get(data, "SkillsAlignment", JDict(EmptyDict))
             IN  IF recs.t # "dict" THEN DataRaise("AttributeError")
                 ELSE IF skills.t # "dict" THEN DataRaise("AttributeError")
                 ELSE DataOk(
                   [immediate_actions |-> Get(recs.fields, "HighPriority", JList(<<>>)),
                    keyword_integration |-> Get(recs.fields, "KeywordOptimization", JList(<<>>)),
                    missing_keywords |-> Get(data, "MissingKeywords", JList(<<>>)),
                    skill_gaps |-> Get(skills.fields, "GapAnalysis", JStr("")),
                    red_flags_to_fix |-> Get(data, "RedFlags", JList(<<>>)),
                    competitive_edge |-> Get(data, "CompetitiveAdvantage", JStr(""))])

----------------------------------------------------------------------------
(* generate_action_plan applied to one argument *)

Keywords == {"k1", "k2"}

FewLists == {JList(<<>>), JList(<<"k1">>)}

FewStrs == {JStr(""), JStr("text")}

\* values that are not records: null, a string, a list
NonRecords == {JNull, JStr("text"), JList(<<"k1">>)}

\* the dict of the keys whose value is present
DictOf(keys, opts) ==
    [f \in {keys[i] : i \in {i \in 1..Len(keys) : opts[i].has}}
       |-> opts[CHOOSE i \in 1..Len(keys) : keys[i] = f].v]

\* the values Recommendations may have, given its HighPriority list
RecommendationValues(hp) ==
    {JDict(DictOf(<<"HighPriority", "KeywordOptimization">>, <<hp, ko>>))
        : ko \in Opt(FewLists)} \cup NonRecords

SkillsValues ==
    {JDict(DictOf(<<"GapAnalysis">>, <<ga>>)) : ga \in Opt(FewStrs)}
    \cup NonRecords

\* an optional list of at most MaxListLen keywords
OptList(present, xs) == [has |-> present, v |-> IF present THEN JList(xs) ELSE <<>>]

PlanData(hp, mk) ==
    {DictOf(<<"Recommendations", "SkillsAlignment", "MissingKeywords",
              "RedFlags", "CompetitiveAdvantage">>,
            <<recs, skills, mk, rf, ca>>)
        : recs \in Opt(RecommendationValues(hp)), skills \in Opt(SkillsValues),
          rf \in Opt(FewLists), ca \in Opt(FewStrs)}

\* the argument as the caller passes it: the dict, its JSON text, other text
PlanArgs(data) ==
    {Obj(data), Str(json_dumps(data)), Str(Text(<<"x">>, EmptyDict))}

InitPlan ==
    /\ AppStart(TRUE, "off")
    /\ ScoreOff
    /\ plan_pc = "input"
    /\ \E n \in 0..MaxListLen, m \in 0..MaxListLen, hpp \in BOOLEAN, mkp \in BOOLEAN :
         \E hl \in [1..n -> Keywords], ml \in [1..m -> Keywords] :
            \E data \in PlanData(OptList(hpp, hl), OptList(mkp, ml)) :
               plan_arg \in PlanArgs(data)
    /\ plan_out = NoOutcome
    /\ plan_shown = "none"

\* action_plan = generate_action_plan(plan_arg)
DerivePlan ==
    /\ plan_pc = "input"
    /\ plan_out' = [ran |-> TRUE] @@ generate_action_plan(plan_arg)
    /\ plan_pc' = "derived"
    /\ UNCHANGED <<plan_arg, plan_shown>>
    /\ UNCHANGED <<appVars, scVars>>

\* main, Quick Action Plan: try generate_action_plan / except st.error
RenderActionPlan ==
    /\ plan_pc = "derived"
    /\ plan_shown' = IF generate_action_plan(plan_arg).ok THEN "plan" ELSE "error"
    /\ plan_pc' = "shown"
    /\ UNCHANGED <<plan_arg, plan_out>>
    /\ UNCHANGED <<appVars, scVars>>

NextPlan == DerivePlan \/ RenderActionPlan

SpecPlan == InitPlan /\ [][NextPlan]_vars

----------------------------------------------------------------------------
(* Properties of the action plan, checked under SpecPlan *)

\* the argument is a dict, or text that parses to one
PlanArgParses == ~plan_arg.isstr \/ json_loads(plan_arg.text).ok

\* the mapping the argument stands for
PlanInput == IF plan_arg.isstr THEN plan_arg.text.members ELSE plan_arg.map

RecordOrAbsent(data, k) == k \notin DOMAIN data \/ data[k].t = "dict"

\* data[parent][key] when both are there, else the default
Sub(data, parent, key, default) ==
    IF parent \in DOMAIN data /\ key \in DOMAIN data[parent].fields
    THEN data[parent].fields[key] ELSE default

PlanNeverFailsOnMapping ==
    (plan_out.ran /\ ~plan_arg.isstr) => plan_out.ok

----------------------------------------------------------------------------
(* Properties of validation as a gate, checked under SpecScore *)

----------------------------------------------------------------------------
(* Properties of the pipeline stages, checked under Spec *)

\* C14: prepare_prompt returns a prompt only when the resume text and the
\* job description are both non-empty after trimming.
PromptOnlyFromNonBlankInputs ==
    pc = "model" =>
        /\ input_prompt.resume_text # <<>>
        /\ input_prompt.job_description # <<>>

StageOrder == <<"extract", "prompt", "model", "validate">>

StageIndex(stage) == CHOOSE i \in 1..Len(StageOrder) : StageOrder[i] = stage

\* a step taken from inside the pipeline either completes the current stage
\* and moves to the next one, or fails the attempt without another stage
StageStep ==
    pc \in PipelineStages =>
        \/ /\ stages' = Append(stages, pc)
           /\ IF pc = "validate"
              THEN pc' = "run" /\ attempt' = "stored"
              ELSE pc' = StageOrder[StageIndex(pc) + 1] /\ attempt' = attempt
        \/ /\ stages' = stages
           /\ pc' = "idle"
           /\ attempt' = "failed"

\* the pipeline is entered only at its first stage, with no stage run yet
StageEntry ==
    (pc' \in PipelineStages /\ pc \notin PipelineStages) =>
        (pc' = "extract" /\ stages' = <<>>)

\* C15: within one analysis the stages run in the order extract, prompt,
\* model, validate, each at most once and only after every earlier stage
\* succeeded; the model is called at most once per analysis and never for a
\* job description that is empty after trimming or without an upload.
StagesRunInOrderOnce ==
    /\ [](\E n \in 0..Len(StageOrder) : stages = SubSeq(StageOrder, 1, n))
    /\ [](pc \in PipelineStages =>
             /\ attempt = "running"
             /\ stages = SubSeq(StageOrder, 1, StageIndex(pc) - 1))
    /\ [](pc = "extract" => (uploaded_file.has /\ Strip(jd) # <<>>))
    /\ [](pc = "model" => input_prompt.job_description # <<>>)
    /\ [](attempt = "rejected" => (stages = <<>> /\ pc \notin PipelineStages))
    /\ [][StageStep]_vars
    /\ [][StageEntry]_vars

AllFourStagesRan ==
    /\ attempt = "stored"
    /\ stages = StageOrder

\* C16: when the reply is not strict JSON, the text get_gemini_response
\* returns (the region from the first '{' to the last '}') parses as valid
\* JSON; the text handed to validation is therefore always parseable.
RecoveredTextParses ==
    pc = "validate" => json_loads(response).ok

\* a step that changes a stored result is New Analysis, and a step that
\* starts the pipeline is taken while no result is stored
StoredResultStep ==
    /\ (~analysis_results.isNone /\ analysis_results' # analysis_results) =>
           (analysis_results' = None /\ show_detailed_view' = FALSE)
    /\ (pc # "extract" /\ pc' = "extract") => analysis_results.isNone

\* C17: once analysis_results is set its keys and values never change across
\* reruns; it changes only when New Analysis resets it to None (and
\* show_detailed_view to False), and a new analysis starts only while no
\* result is stored.
StoredResultImmutable == [][StoredResultStep]_vars

----------------------------------------------------------------------------
(* Properties of the scores of a validated result, checked under SpecScore *)

\* the number a rendering shows for score field f of a validated result:
\* the integer the validator read when f is present, 0 when it is absent
ShowsValidatedScore(out, f) ==
    /\ NumOf(out, f) \in 0..100
    /\ NumOf(out, f) = IF f \in DOMAIN sc_data
                       THEN ScoreDigits(sc_data[f]).val
                       ELSE 0

\* C18: for a result that passed process_ats_results, the score extraction
\* of display_score_card and of generate_pdf_report never raises and yields
\* an integer in 0..100: the validated value of a present field, 0 through
\* the "N/A" default for an absent one.
ValidatedScoresAlwaysRender ==
    (val_out.ran /\ val_out.ok) =>
        /\ card_out.ran =>
              /\ card_out.ok
              /\ \A f \in ScoreFieldSet : ShowsValidatedScore(card_out, f)
        /\ report_out.ran =>
              /\ report_out.ok
              /\ \A f \in ScoreFieldSet : ShowsValidatedScore(report_out, f)

AbsentMatchScoreRenderedAsZero ==
    /\ val_out.ran /\ val_out.ok
    /\ card_out.ran /\ report_out.ran
    /\ DOMAIN sc_data = {"ATSScore"}
    /\ sc_data["ATSScore"] = <<"8", "2">>
    /\ card_out.match_num = 0 /\ card_out.ats_num = 82
    /\ report_out.match_num = 0 /\ report_out.ats_num = 82

====
